---- MODULE Spec2Model ----
(***************************************************************************)
(* Model of src/src/db_connection.py: the configuration loader             *)
(* (DatabaseConfig), the connection manager (DatabaseConnection) and the   *)
(* bootstrap helper (create_database_if_missing), together with the        *)
(* PostgreSQL server and the process environment they act on.              *)
(***************************************************************************)
EXTENDS Integers, Sequences, FiniteSets, TLC

VARIABLES
    env,        \* os.environ after load_dotenv(): a function from the set variables to strings
    config,     \* the DatabaseConfig object of the last DatabaseConfig() call, NoConfig if it raised
    cfgCall,    \* what the last DatabaseConfig() call read and how it ended
    reachable,  \* the PostgreSQL server answers on its address
    databases,  \* the databases that exist on the server
    tables,     \* the tables of the target database, by name
    engine,     \* DatabaseConnection.engine, NoEngine before construction
    contacted,  \* the engine has tried to open a connection since it was created
    checkedOut, \* connections of the engine's pool checked out by test_connection
    pc,         \* position inside test_connection: "idle" or "in_with"
    last,       \* the last completed call on the manager and its outcome
    written,    \* per table name, the last successful write_dataframe to it
    expect,     \* per table name, the rows written since the last replace or creation
    streak,     \* per table name, the trailing run of successive successful appends
    bpc,        \* per caller of create_database_if_missing, its position
    bconn,      \* per caller, its connection to the maintenance database
    bfound,     \* per caller, what result.scalar() gave it
    calls       \* the calls of create_database_if_missing, in the order they started

cfgVars == <<env, config, cfgCall>>

serverVars == <<reachable, databases, tables>>

managerVars == <<engine, contacted, checkedOut, pc, last, written, expect, streak>>

bootVars == <<bpc, bconn, bfound, calls>>

vars == <<env, config, cfgCall, reachable, databases, tables, engine, contacted,
          checkedOut, pc, last, written, expect, streak, bpc, bconn, bfound, calls>>

----------------------------------------------------------------------------
(* Process environment and DatabaseConfig (lines 15-25)                     *)

EnvNames == {"DB_USER", "DB_PASS", "DB_HOST", "DB_PORT", "DB_NAME"}

\* The strings a variable may be set to: the empty string and two others.
EnvValues(k) ==
    CASE k = "DB_USER" -> {"", "erik"}
      [] k = "DB_PASS" -> {"", "secret", "guess"}
      [] k = "DB_HOST" -> {"", "db.internal"}
      [] k = "DB_PORT" -> {"", "6543"}
      [] k = "DB_NAME" -> {"", "listings"}

\* os.getenv(key, default): the default only when the variable is unset.
getenv(e, k, d) == IF k \in DOMAIN e THEN e[k] ELSE d

MissingOnlyWhenBothEmpty(user, password) == user = "" /\ password = ""

\* line 24: not self.user or not self.password
MissingCredentials(user, password) == user = "" \/ password = ""

NoConfig == [built |-> FALSE]

\* DatabaseConfig.__init__: the object, or NoConfig when ValueError is raised.
DatabaseConfig(e) ==
    LET user     == getenv(e, "DB_USER", "")
        password == getenv(e, "DB_PASS", "")
        host     == getenv(e, "DB_HOST", "localhost")
        port     == getenv(e, "DB_PORT", "5432")
        database == getenv(e, "DB_NAME", "airbnb_db")
    IN  IF MissingCredentials(user, password)
        THEN NoConfig
        ELSE [built |-> TRUE, user |-> user, password |-> password,
              host |-> host, port |-> port, database |-> database]

NoCall == [made |-> FALSE]

\* The environment is edited (export, .env file change) between calls.
SetEnv(k, v) ==
    /\ env' = [x \in DOMAIN env \cup {k} |-> IF x = k THEN v ELSE env[x]]
    /\ UNCHANGED <<config, cfgCall, serverVars, managerVars, bootVars>>

UnsetEnv(k) ==
    /\ k \in DOMAIN env
    /\ env' = [x \in DOMAIN env \ {k} |-> env[x]]
    /\ UNCHANGED <<config, cfgCall, serverVars, managerVars, bootVars>>

\* DatabaseConfig(): the new object, or ValueError and no object.
NewDatabaseConfig ==
    LET c == DatabaseConfig(env)
    IN  /\ cfgCall' = [made |-> TRUE, env |-> env, raised |-> ~c.built, object |-> c]
        /\ config' = c
        /\ UNCHANGED <<env, serverVars, managerVars, bootVars>>

----------------------------------------------------------------------------
(* The PostgreSQL server                                                    *)

\* The address the server listens on and the one role it knows.
ServerAddress == [host |-> "localhost", port |-> "5432"]

ServerRole == [user |-> "erik", password |-> "secret"]

MaintenanceDb == "postgres"

\* A connection to database db under url can be opened: the server is up at
\* the url's address, accepts the url's role, and has the database.
Connects(up, dbs, url, db) ==
    /\ up
    /\ url.host = ServerAddress.host /\ url.port = ServerAddress.port
    /\ url.user = ServerRole.user /\ url.password = ServerRole.password
    /\ db \in dbs

\* The server goes down or comes back, at any time.
ServerChange ==
    /\ reachable' = ~reachable
    /\ UNCHANGED <<databases, tables, cfgVars, managerVars, bootVars>>

----------------------------------------------------------------------------
(* Tabular data: pandas DataFrames and SQL tables                           *)

MaxRows == 1        \* rows of a DataFrame handed to write_dataframe
MaxDbRows == 2      \* rows the target database holds, over all its tables

TableNames == {"listings"}

Layouts == {<<"id">>, <<"id", "price">>}

Values == {1, 2}

\* SQL NULL, outside Values.
NULL == 0

Range(f) == {f[i] : i \in DOMAIN f}

SeqsUpTo(S, n) == UNION {[1..k -> S] : k \in 0..n}

\* A DataFrame's index: the default RangeIndex or labels of the caller's.
RangeIndex(n) == [i \in 1..n |-> i - 1]

IndexChoices(n) == {RangeIndex(n), [i \in 1..n |-> 10 * i]}

DataFrames ==
    UNION {UNION {{[columns |-> c, index |-> ix, rows |-> r] : ix \in IndexChoices(Len(r))}
                  : r \in SeqsUpTo([1..Len(c) -> Values], MaxRows)}
           : c \in Layouts}

NoTable == [exists |-> FALSE, columns |-> <<>>, rows |-> <<>>]

RowCount(t) == Len(t.rows)

DbRows(tbls) ==
    LET RECURSIVE Sum(_)
        Sum(S) == IF S = {} THEN 0
                  ELSE LET n == CHOOSE x \in S : TRUE IN RowCount(tbls[n]) + Sum(S \ {n})
    IN  Sum(DOMAIN tbls)

\* A row with columns cols as an INSERT stores it in a table with columns
\* tcols: by column name, NULL where the row has no such column.
Stored(cols, row, tcols) ==
    [j \in 1..Len(tcols) |->
        IF \E i \in 1..Len(cols) : cols[i] = tcols[j]
        THEN row[CHOOSE i \in 1..Len(cols) : cols[i] = tcols[j]]
        ELSE NULL]

\* DataFrame.to_sql(name, con, if_exists=..., index=...) on a connection that
\* works: the tables afterwards, or raised and nothing changed (the statements
\* run in one transaction).
to_sql(tbls, df, name, if_exists, index) ==
    LET cols  == IF index THEN <<"index">> \o df.columns ELSE df.columns
        rows  == IF index THEN [i \in 1..Len(df.rows) |-> <<df.index[i]>> \o df.rows[i]]
                          ELSE df.rows
        old   == tbls[name]
        fresh == [exists |-> TRUE, columns |-> cols, rows |-> rows]
        more  == [old EXCEPT !.rows = @ \o [i \in 1..Len(rows) |-> Stored(cols, rows[i], old.columns)]]
        Ok(t) == [raised |-> FALSE, tables |-> [tbls EXCEPT ![name] = t]]
        Fail  == [raised |-> TRUE, tables |-> tbls]
    IN  IF ~old.exists THEN Ok(fresh)
        ELSE CASE if_exists = "fail"    -> Fail
               [] if_exists = "replace" -> Ok(fresh)
               [] if_exists = "append"  ->
                     IF Range(cols) \subseteq Range(old.columns) THEN Ok(more) ELSE Fail

NoFrame == [columns |-> <<>>, index |-> <<>>, rows |-> <<>>]

\* The query strings: SELECT * FROM a table, and one the server rejects.
Queries == {[kind |-> "select_all", table |-> n] : n \in TableNames}
              \cup {[kind |-> "malformed", table |-> ""]}

\* pandas.read_sql(query, con) on a connection that works: the result set as a
\* DataFrame with a fresh RangeIndex, or raised.
read_sql(tbls, query) ==
    IF query.kind = "select_all" /\ tbls[query.table].exists
    THEN [raised |-> FALSE,
          frame |-> [columns |-> tbls[query.table].columns,
                     index |-> RangeIndex(RowCount(tbls[query.table])),
                     rows |-> tbls[query.table].rows]]
    ELSE [raised |-> TRUE, frame |-> NoFrame]

----------------------------------------------------------------------------
(* DatabaseConnection (lines 28-61)                                         *)

NoEngine == [built |-> FALSE]

\* lines 37-40: the URL is made of the five fields of the configuration.
engine_url(c) ==
    [user |-> c.user, password |-> c.password, host |-> c.host, port |-> c.port,
     database |-> c.database]

EngineThatConnects(url) == [built |-> TRUE, url |-> url, connects |-> TRUE]

\* line 41, create_engine(engine_url): the engine opens no connection until
\* it is first asked for one.
create_engine(url) == [built |-> TRUE, url |-> url, connects |-> FALSE]

NoOutput == <<>>

Call(op) ==
    [op |-> op, name |-> "", policy |-> "", query |-> "", existed |-> FALSE,
     connected |-> FALSE, queried |-> FALSE, status |-> "returned",
     printed |-> NoOutput, value |-> NoFrame]

\* DatabaseConnection(config), for a configuration that was built.
Construct ==
    /\ config.built
    /\ pc = "idle"
    /\ LET e  == create_engine(engine_url(config))
           ok == e.connects => Connects(reachable, databases, e.url, e.url.database)
       IN  /\ engine' = IF ok THEN [built |-> TRUE, url |-> e.url] ELSE NoEngine
           /\ contacted' = e.connects
           /\ checkedOut' = 0
           /\ last' = [Call("construct") EXCEPT
                         !.connected = Connects(reachable, databases, e.url, e.url.database),
                         !.status = IF ok THEN "returned" ELSE "raised"]
    /\ UNCHANGED <<pc, written, expect, streak, cfgVars, serverVars, bootVars>>

Policies == {"replace", "append", "fail"}

WriteAlwaysReplaces(tbls, conn, df, table_name, if_exists) ==
    LET r == IF conn THEN to_sql(tbls, df, table_name, "replace", FALSE)
                     ELSE [raised |-> TRUE, tables |-> tbls]
    IN  [raised |-> r.raised, tables |-> r.tables,
         printed |-> IF r.raised THEN NoOutput
                     ELSE <<"DataFrame successfully saved to table", table_name>>]

WriteAlwaysAppends(tbls, conn, df, table_name, if_exists) ==
    LET r == IF conn THEN to_sql(tbls, df, table_name, "append", FALSE)
                     ELSE [raised |-> TRUE, tables |-> tbls]
    IN  [raised |-> r.raised, tables |-> r.tables,
         printed |-> IF r.raised THEN NoOutput
                     ELSE <<"DataFrame successfully saved to table", table_name>>]

WriteWithIndex(tbls, conn, df, table_name, if_exists) ==
    LET r == IF conn THEN to_sql(tbls, df, table_name, if_exists, TRUE)
                     ELSE [raised |-> TRUE, tables |-> tbls]
    IN  [raised |-> r.raised, tables |-> r.tables,
         printed |-> IF r.raised THEN NoOutput
                     ELSE <<"DataFrame successfully saved to table", table_name>>]

WritePrintsInFinally(tbls, conn, df, table_name, if_exists) ==
    LET r == IF conn THEN to_sql(tbls, df, table_name, if_exists, FALSE)
                     ELSE [raised |-> TRUE, tables |-> tbls]
    IN  [raised |-> r.raised, tables |-> r.tables,
         printed |-> <<"DataFrame successfully saved to table", table_name>>]

\* write_dataframe (lines 43-46): to_sql with the caller's if_exists and
\* index=False; an exception of to_sql leaves the function before the print.
write_dataframe(tbls, conn, df, table_name, if_exists) ==
    LET r == IF conn THEN to_sql(tbls, df, table_name, if_exists, FALSE)
                     ELSE [raised |-> TRUE, tables |-> tbls]
    IN  [raised |-> r.raised, tables |-> r.tables,
         printed |-> IF r.raised THEN NoOutput
                     ELSE <<"DataFrame successfully saved to table", table_name>>]

\* The rows of a DataFrame, each with the columns it was written under.
RowsOf(df) == [i \in 1..Len(df.rows) |-> [columns |-> df.columns, cells |-> df.rows[i]]]

NoStreak == [before |-> 0, counts |-> <<>>]

\* The run of successive appends after one more append of n rows to a table
\* that held before rows: the last two are kept.
Extend(s, before, n) ==
    IF Len(s.counts) = 0 THEN [before |-> before, counts |-> <<n>>]
    ELSE IF Len(s.counts) = 1 THEN [s EXCEPT !.counts = @ \o <<n>>]
    ELSE [before |-> s.before + s.counts[1], counts |-> <<s.counts[2], n>>]

\* A call of write_dataframe(df, table_name, if_exists).
Write(df, table_name, if_exists) ==
    /\ engine.built
    /\ pc = "idle"
    /\ LET conn    == Connects(reachable, databases, engine.url, engine.url.database)
           r       == write_dataframe(tables, conn, df, table_name, if_exists)
           existed == tables[table_name].exists
           resets  == if_exists = "replace" \/ ~existed
       IN  /\ DbRows(r.tables) <= MaxDbRows
           /\ tables' = r.tables
           /\ last' = [Call("write") EXCEPT
                         !.name = table_name, !.policy = if_exists, !.existed = existed,
                         !.connected = conn, !.printed = r.printed,
                         !.status = IF r.raised THEN "raised" ELSE "returned"]
           /\ IF r.raised
              THEN UNCHANGED <<written, expect, streak>>
              ELSE /\ written' = [written EXCEPT ![table_name] =
                          [policy |-> if_exists, columns |-> df.columns]]
                   /\ expect' = [expect EXCEPT ![table_name] =
                          (IF resets THEN <<>> ELSE @) \o RowsOf(df)]
                   /\ streak' = [streak EXCEPT ![table_name] =
                          IF if_exists = "append"
                          THEN Extend(@, RowCount(tables[table_name]), Len(df.rows))
                          ELSE NoStreak]
    /\ contacted' = TRUE
    /\ UNCHANGED <<engine, checkedOut, pc, reachable, databases, cfgVars, bootVars>>

\* read_dataframe (lines 48-50).
read_dataframe(tbls, conn, query) ==
    IF conn THEN read_sql(tbls, query) ELSE [raised |-> TRUE, frame |-> NoFrame]

\* A call of read_dataframe(query).
Read(query) ==
    /\ engine.built
    /\ pc = "idle"
    /\ LET conn == Connects(reachable, databases, engine.url, engine.url.database)
           r    == read_dataframe(tables, conn, query)
       IN  last' = [Call("read") EXCEPT
                      !.query = query.kind, !.name = query.table, !.connected = conn,
                      !.status = IF r.raised THEN "raised" ELSE "returned",
                      !.value = r.frame]
    /\ contacted' = TRUE
    /\ UNCHANGED <<engine, checkedOut, pc, written, expect, streak,
                   cfgVars, serverVars, bootVars>>

TestConnectionQueryErrorEscapes(connected, queried) ==
    IF connected /\ queried
    THEN [status |-> "true", printed |-> <<"Database connection successful.">>]
    ELSE IF connected
         THEN [status |-> "raised", printed |-> NoOutput]
         ELSE [status |-> "false", printed |-> <<"Database connection failed">>]

\* test_connection (lines 52-61): what it returns and prints, given whether
\* engine.connect() and then conn.execute(text("SELECT 1")) succeeded; the
\* except clause takes the exception of either.
test_connection(connected, queried) ==
    IF connected /\ queried
    THEN [status |-> "true", printed |-> <<"Database connection successful.">>]
    ELSE [status |-> "false", printed |-> <<"Database connection failed">>]

LeakOnError(n, queried) == IF queried THEN n - 1 ELSE n

\* line 55, with engine.connect() as conn: leaving the block, by its end or
\* by an exception, returns the connection to the pool.
AfterWith(n, queried) == n - 1

\* test_connection up to engine.connect().
TestConnect ==
    /\ engine.built
    /\ pc = "idle"
    /\ contacted' = TRUE
    /\ IF Connects(reachable, databases, engine.url, engine.url.database)
       THEN /\ pc' = "in_with"
            /\ checkedOut' = checkedOut + 1
            /\ UNCHANGED last
       ELSE LET r == test_connection(FALSE, FALSE)
            IN  /\ last' = [Call("test") EXCEPT !.status = r.status, !.printed = r.printed]
                /\ UNCHANGED <<pc, checkedOut>>
    /\ UNCHANGED <<engine, written, expect, streak, cfgVars, serverVars, bootVars>>

\* test_connection from conn.execute to its return: the query succeeds when
\* the server still answers.
TestExecute ==
    /\ pc = "in_with"
    /\ LET r == test_connection(TRUE, reachable)
       IN  last' = [Call("test") EXCEPT !.connected = TRUE, !.queried = reachable,
                                        !.status = r.status, !.printed = r.printed]
    /\ checkedOut' = AfterWith(checkedOut, reachable)
    /\ pc' = "idle"
    /\ UNCHANGED <<engine, contacted, written, expect, streak, cfgVars, serverVars, bootVars>>

----------------------------------------------------------------------------
(* create_database_if_missing (lines 64-78)                                 *)

MaxCalls == 3       \* calls of create_database_if_missing in a run

Callers == {1, 2}

Closed == [open |-> FALSE, inTransaction |-> FALSE]

BootIdle ==
    /\ bpc = [p \in Callers |-> "idle"]
    /\ bconn = [p \in Callers |-> Closed]
    /\ bfound = [p \in Callers |-> FALSE]
    /\ calls = <<>>

\* lines 66-69: the configuration's server and role, the database postgres.
default_engine_url(c) == [engine_url(c) EXCEPT !.database = MaintenanceDb]

\* line 70, create_engine(default_engine_url): no isolation_level is given,
\* so the driver's connections are not in autocommit mode.
Autocommit == FALSE

\* conn.execute on a connection of the engine: outside autocommit mode the
\* driver opens a transaction with the first statement, and nothing between
\* lines 72 and 77 commits it.
AfterExecute(conn) == [conn EXCEPT !.inTransaction = ~Autocommit]

\* line 77, CREATE DATABASE name on the server: refused inside a transaction
\* block, refused when the database exists, otherwise the database is made.
CreateDatabase(dbs, name, conn) ==
    IF conn.inTransaction THEN [error |-> "in_transaction", databases |-> dbs]
    ELSE IF name \in dbs THEN [error |-> "already_exists", databases |-> dbs]
    ELSE [error |-> "none", databases |-> dbs \cup {name}]

\* The call caller p is in, or made last.
Cur(p) == CHOOSE i \in DOMAIN calls :
              calls[i].caller = p /\ \A j \in DOMAIN calls : j > i => calls[j].caller # p

NewCall(p) ==
    [caller |-> p, absentAtStart |-> config.database \notin databases,
     overlapped |-> \E q \in Callers : q # p /\ bpc[q] # "idle",
     found |-> "unknown", issued |-> FALSE, created |-> FALSE,
     error |-> "none", printed |-> NoOutput, ended |-> FALSE]

\* The calls in progress when p starts one are overlapped by it.
MarkOverlapped(cs, p) ==
    [i \in DOMAIN cs |-> IF ~cs[i].ended /\ cs[i].caller # p
                         THEN [cs[i] EXCEPT !.overlapped = TRUE] ELSE cs[i]]

\* create_database_if_missing(config) up to engine.connect() (lines 66-71).
BootConnect(p) ==
    /\ config.built
    /\ bpc[p] = "idle"
    /\ Len(calls) < MaxCalls
    /\ IF Connects(reachable, databases, default_engine_url(config), MaintenanceDb)
       THEN /\ bpc' = [bpc EXCEPT ![p] = "connected"]
            /\ bconn' = [bconn EXCEPT ![p] = [open |-> TRUE, inTransaction |-> FALSE]]
            /\ calls' = Append(MarkOverlapped(calls, p), NewCall(p))
       ELSE /\ calls' = Append(calls, [NewCall(p) EXCEPT !.error = "connection", !.ended = TRUE])
            /\ UNCHANGED <<bpc, bconn>>
    /\ UNCHANGED <<bfound, cfgVars, serverVars, managerVars>>

\* The catalog query and result.scalar() (lines 72-76).
BootSelect(p) ==
    /\ bpc[p] = "connected"
    /\ IF reachable
       THEN /\ bfound' = [bfound EXCEPT ![p] = config.database \in databases]
            /\ bconn' = [bconn EXCEPT ![p] = AfterExecute(@)]
            /\ bpc' = [bpc EXCEPT ![p] = "checked"]
            /\ calls' = [calls EXCEPT ![Cur(p)].found =
                            IF config.database \in databases THEN "yes" ELSE "no"]
       ELSE /\ calls' = [calls EXCEPT ![Cur(p)].error = "connection", ![Cur(p)].ended = TRUE]
            /\ bconn' = [bconn EXCEPT ![p] = Closed]
            /\ bpc' = [bpc EXCEPT ![p] = "idle"]
            /\ UNCHANGED bfound
    /\ UNCHANGED <<cfgVars, serverVars, managerVars>>

\* From the test of line 76 to the return: the create statement and the
\* print when nothing was found, nothing otherwise; the with block closes
\* the connection either way.
BootFinish(p) ==
    /\ bpc[p] = "checked"
    /\ IF bfound[p]
       THEN /\ calls' = [calls EXCEPT ![Cur(p)].ended = TRUE]
            /\ UNCHANGED databases
       ELSE IF ~reachable
       THEN /\ calls' = [calls EXCEPT ![Cur(p)].issued = TRUE, ![Cur(p)].error = "connection",
                                      ![Cur(p)].ended = TRUE]
            /\ UNCHANGED databases
       ELSE LET r == CreateDatabase(databases, config.database, bconn[p])
            IN  /\ databases' = r.databases
                /\ calls' = [calls EXCEPT
                       ![Cur(p)].issued = TRUE, ![Cur(p)].error = r.error,
                       ![Cur(p)].created = (r.error = "none"),
                       ![Cur(p)].printed = IF r.error = "none"
                                           THEN <<"Database created.", config.database>>
                                           ELSE NoOutput,
                       ![Cur(p)].ended = TRUE]
    /\ bconn' = [bconn EXCEPT ![p] = Closed]
    /\ bpc' = [bpc EXCEPT ![p] = "idle"]
    /\ UNCHANGED <<bfound, reachable, tables, cfgVars, managerVars>>

----------------------------------------------------------------------------------------------------------------------------------------
(* Specifications                                                           *)

TargetDb == "airbnb_db"

GoodEnv == [k \in {"DB_USER", "DB_PASS"} |-> IF k = "DB_USER" THEN "erik" ELSE "secret"]

\* Environments that give a configuration: the right credentials, a wrong
\* password, a host where no server listens.
ManagerEnvs ==
    {GoodEnv,
     [k \in {"DB_USER", "DB_PASS"} |-> IF k = "DB_USER" THEN "erik" ELSE "guess"],
     [k \in {"DB_USER", "DB_PASS", "DB_HOST"} |->
         IF k = "DB_USER" THEN "erik" ELSE IF k = "DB_PASS" THEN "secret" ELSE "db.internal"]}

\* What a table name may stand for before the manager is used: no table, or
\* a table somebody made earlier.
InitialTables ==
    {NoTable} \cup {[exists |-> TRUE, columns |-> df.columns, rows |-> df.rows] : df \in DataFrames}

ManagerIdle ==
    /\ engine = NoEngine
    /\ contacted = FALSE
    /\ checkedOut = 0
    /\ pc = "idle"
    /\ last = Call("none")
    /\ written = [n \in TableNames |-> [policy |-> "none", columns |-> <<>>]]
    /\ expect = [n \in TableNames |->
                    [i \in 1..RowCount(tables[n]) |->
                        [columns |-> tables[n].columns, cells |-> tables[n].rows[i]]]]
    /\ streak = [n \in TableNames |-> NoStreak]

ConfigFrom(e) ==
    /\ env = e
    /\ config = DatabaseConfig(e)
    /\ cfgCall = [made |-> TRUE, env |-> e, raised |-> ~config.built, object |-> config]

\* Spec: the manager moving tables in and out of an existing target database
\* that may hold a table already, on a server that answers.
Init ==
    /\ ConfigFrom(GoodEnv)
    /\ reachable = TRUE
    /\ databases = {MaintenanceDb, TargetDb}
    /\ tables \in [TableNames -> InitialTables]
    /\ DbRows(tables) <= MaxDbRows
    /\ ManagerIdle
    /\ BootIdle

Next ==
    \/ Construct
    \/ \E df \in DataFrames, n \in TableNames, p \in Policies : Write(df, n, p)
    \/ \E q \in Queries : Read(q)

Spec == Init /\ [][Next]_vars

\* SpecConnection: the manager under right and wrong configurations, on a
\* server that comes and goes, with or without the target database.
ProbeFrames == {df \in DataFrames : df.columns = <<"id">> /\ df.index = RangeIndex(Len(df.rows))}

InitConnection ==
    /\ \E e \in ManagerEnvs : ConfigFrom(e)
    /\ reachable \in BOOLEAN
    /\ databases \in {{MaintenanceDb}, {MaintenanceDb, TargetDb}}
    /\ tables = [n \in TableNames |-> NoTable]
    /\ ManagerIdle
    /\ BootIdle

NextConnection ==
    \/ ServerChange
    \/ Construct
    \/ \E df \in ProbeFrames, n \in TableNames, p \in Policies : Write(df, n, p)
    \/ \E q \in Queries : Read(q)
    \/ TestConnect
    \/ TestExecute

SpecConnection == InitConnection /\ [][NextConnection]_vars

\* SpecConfig: DatabaseConfig() under every environment.
Environments ==
    UNION {{e \in [S -> UNION {EnvValues(k) : k \in S}] : \A k \in S : e[k] \in EnvValues(k)}
           : S \in SUBSET EnvNames}

InitConfig ==
    /\ env \in Environments
    /\ config = NoConfig
    /\ cfgCall = NoCall
    /\ reachable = TRUE
    /\ databases = {MaintenanceDb}
    /\ tables = [n \in TableNames |-> NoTable]
    /\ ManagerIdle
    /\ BootIdle

NextConfig ==
    \/ \E k \in EnvNames : \E v \in EnvValues(k) : SetEnv(k, v)
    \/ \E k \in EnvNames : UnsetEnv(k)
    \/ NewDatabaseConfig

SpecConfig == InitConfig /\ [][NextConfig]_vars

\* SpecBootstrap: one or two callers of create_database_if_missing on a
\* server that comes and goes, with or without the target database.
InitBootstrap ==
    /\ \E e \in ManagerEnvs : ConfigFrom(e)
    /\ reachable \in BOOLEAN
    /\ databases \in {{MaintenanceDb}, {MaintenanceDb, TargetDb}}
    /\ tables = [n \in TableNames |-> NoTable]
    /\ ManagerIdle
    /\ BootIdle

NextBootstrap ==
    \/ ServerChange
    \/ \E p \in Callers : BootConnect(p)
    \/ \E p \in Callers : BootSelect(p)
    \/ \E p \in Callers : BootFinish(p)

SpecBootstrap == InitBootstrap /\ [][NextBootstrap]_vars

----------------------------------------------------------------------------
(* Claims                                                                   *)

IsSet(e, k) == k \in DOMAIN e /\ e[k] # ""

OrDefault(e, k, d) == IF k \in DOMAIN e THEN e[k] ELSE d

\* C1: DatabaseConfig() succeeds exactly when DB_USER and DB_PASS are both
\* set to non-empty strings; then the five fields are the environment's
\* values, with localhost, 5432 and airbnb_db for host, port and database
\* when their variables are unset; otherwise it raises and gives no object.
C1_ConfigOutcome ==
    cfgCall.made =>
        LET e == cfgCall.env
        IN  /\ cfgCall.raised <=> ~(IsSet(e, "DB_USER") /\ IsSet(e, "DB_PASS"))
            /\ cfgCall.raised => cfgCall.object = NoConfig /\ config = NoConfig
            /\ ~cfgCall.raised =>
                  /\ config = cfgCall.object
                  /\ config.built
                  /\ config.user = e["DB_USER"]
                  /\ config.password = e["DB_PASS"]
                  /\ config.host = OrDefault(e, "DB_HOST", "localhost")
                  /\ config.port = OrDefault(e, "DB_PORT", "5432")
                  /\ config.database = OrDefault(e, "DB_NAME", "airbnb_db")

\* A configuration built with DB_HOST unset and DB_PORT set.
C1_Witness ==
    /\ cfgCall.made /\ ~cfgCall.raised
    /\ "DB_HOST" \notin DOMAIN cfgCall.env
    /\ "DB_PORT" \in DOMAIN cfgCall.env
    /\ config.host = "localhost"

\* C2: when the last successful write_dataframe to a table name had policy
\* replace, a read_dataframe of SELECT * FROM that table that returns gives
\* the written table's row count, column names in order and cell values,
\* whatever the table held before the write.
C2_ReplaceThenReadRoundTrip ==
    (/\ last.op = "read" /\ last.status = "returned" /\ last.query = "select_all"
     /\ written[last.name].policy = "replace")
    => /\ Len(last.value.rows) = Len(expect[last.name])
       /\ last.value.columns = written[last.name].columns
       /\ \A i \in 1..Len(expect[last.name]) : last.value.rows[i] = expect[last.name][i].cells

\* A two-column table with a row, read back after a replace.
C2_Witness ==
    /\ last.op = "read" /\ last.status = "returned" /\ last.query = "select_all"
    /\ written[last.name].policy = "replace"
    /\ written[last.name].columns = <<"id", "price">>
    /\ Len(last.value.rows) >= 1

\* C3 as stated: after two successive successful write_dataframe calls with
\* policy append to one table name, the table's row count is the sum of the
\* row counts of the two written tables.
C3_TwoAppendsSumOnly ==
    \A n \in TableNames :
        Len(streak[n].counts) = 2 =>
            RowCount(tables[n]) = streak[n].counts[1] + streak[n].counts[2]

\* C3 amended: after two successive successful write_dataframe calls with
\* policy append to one table name, the table's row count is the row count
\* it had before the first of them (zero if it did not exist) plus the sum
\* of the row counts of the two written tables.
C3_TwoAppendsAddToExisting ==
    \A n \in TableNames :
        Len(streak[n].counts) = 2 =>
            RowCount(tables[n]) = streak[n].before + streak[n].counts[1] + streak[n].counts[2]

\* Two appends, the second not empty, to a table that held a row.
C3_Witness ==
    \E n \in TableNames :
        /\ Len(streak[n].counts) = 2
        /\ streak[n].before >= 1
        /\ streak[n].counts[2] >= 1

\* C4: write_dataframe with policy fail on a table name that exists raises,
\* leaves the table's rows and columns as they were and prints no
\* confirmation.
C4_FailPolicyKeepsTable ==
    [][(last'.op = "write" /\ last'.policy = "fail" /\ last'.existed)
       => /\ last'.status = "raised"
          /\ last'.printed = NoOutput
          /\ tables'[last'.name] = tables[last'.name]]_vars

\* A write with policy fail was refused on a table that holds a row.
C4_Witness ==
    /\ last.op = "write" /\ last.policy = "fail" /\ last.existed
    /\ last.connected
    /\ last.status = "raised"
    /\ RowCount(tables[last.name]) >= 1

\* C5: test_connection never raises: it returns true when engine.connect()
\* and the SELECT 1 both succeed and false when either fails.
C5_TestConnectionNeverRaises ==
    last.op = "test" =>
        /\ last.status \in {"true", "false"}
        /\ last.status = "true" <=> (last.connected /\ last.queried)

\* test_connection returned false after the query failed on a connection
\* it had opened.
C5_Witness ==
    /\ last.op = "test" /\ last.connected /\ ~last.queried
    /\ last.status = "false"

\* C8: DatabaseConnection(config) returns a manager without contacting the
\* server, whether or not a connection could be opened; a connection that
\* cannot be opened then shows in write_dataframe or read_dataframe raising
\* and in test_connection returning false.
C8_ConstructionIsLazy ==
    /\ last.op = "construct" =>
          /\ last.status = "returned"
          /\ engine.built
          /\ pc = "idle" => ~contacted
    /\ (last.op \in {"write", "read"} /\ ~last.connected) => last.status = "raised"
    /\ (last.op = "test" /\ ~last.connected) => last.status = "false"

\* A manager constructed while no connection could be opened.
C8_Witness ==
    /\ last.op = "construct" /\ ~last.connected
    /\ engine.built
    /\ ~contacted

\* C9 as stated: a table's rows are the rows of the most recent write with
\* policy replace, or of the write that created it, followed in call order
\* by the rows of every later write with policy append.
C9_RowsAsWritten ==
    \A n \in TableNames :
        tables[n].exists =>
            tables[n].rows = [i \in 1..Len(expect[n]) |-> expect[n][i].cells]

\* C9 amended: a table's rows are the rows of the most recent write with
\* policy replace, or of the write that created it, followed in call order
\* by the rows of every later write with policy append, each row laid out in
\* the table's columns by column name, with NULL in the columns that the
\* appended table does not have.
C9_RowsAsStored ==
    \A n \in TableNames :
        tables[n].exists =>
            tables[n].rows =
                [i \in 1..Len(expect[n]) |->
                    [j \in 1..Len(tables[n].columns) |->
                        IF \E k \in 1..Len(expect[n][i].columns) :
                               expect[n][i].columns[k] = tables[n].columns[j]
                        THEN expect[n][i].cells[CHOOSE k \in 1..Len(expect[n][i].columns) :
                                       expect[n][i].columns[k] = tables[n].columns[j]]
                        ELSE NULL]]

\* A replace followed by an append of a table with fewer columns.
C9_Witness ==
    \E n \in TableNames :
        /\ written[n].policy = "append"
        /\ Len(expect[n]) = 2
        /\ expect[n][1].columns = <<"id", "price">>
        /\ expect[n][2].columns = <<"id">>

\* C10: a test_connection call that took a connection from the pool has
\* returned it when the call ends, whether the query succeeded or failed:
\* between calls no connection is checked out.
C10_PoolEmptyBetweenCalls ==
    /\ pc = "idle" => checkedOut = 0
    /\ pc = "in_with" => checkedOut = 1

\* A call whose query failed has ended and the pool has its connection back.
C10_Witness ==
    /\ pc = "idle"
    /\ last.op = "test" /\ last.connected /\ ~last.queried
    /\ checkedOut = 0
    /\ contacted

\* C6: two calls of create_database_if_missing one after the other, on a
\* server without the target database that stays reachable: the first
\* creates the database and raises nothing, the second issues no create
\* statement and raises nothing.
C6_SequentialCallsCreateOnce ==
    \A i \in DOMAIN calls : \A j \in DOMAIN calls :
        (/\ j = i + 1
         /\ calls[i].ended /\ calls[j].ended
         /\ ~calls[i].overlapped /\ ~calls[j].overlapped
         /\ calls[i].absentAtStart
         /\ calls[i].error # "connection" /\ calls[j].error # "connection")
        => /\ calls[i].created /\ calls[i].error = "none"
           /\ ~calls[j].issued /\ calls[j].error = "none"

\* C7: when two overlapping calls of create_database_if_missing both find
\* the target database missing and both issue the create statement, one
\* creates it and the other fails with database-already-exists.
C7_RaceEndsInAlreadyExists ==
    \A i \in DOMAIN calls : \A j \in DOMAIN calls :
        (/\ i # j
         /\ calls[i].caller # calls[j].caller
         /\ calls[i].ended /\ calls[j].ended
         /\ calls[i].overlapped /\ calls[j].overlapped
         /\ calls[i].found = "no" /\ calls[j].found = "no"
         /\ calls[i].issued /\ calls[j].issued
         /\ calls[i].error # "connection" /\ calls[j].error # "connection")
        => \/ calls[i].created /\ calls[j].error = "already_exists"
           \/ calls[j].created /\ calls[i].error = "already_exists"

====
